---------------------------- MODULE Spec2Model ----------------------------
(***************************************************************************)
(* Wire-protocol codec layer of cubic-protocol (src/src/protocol.rs) and   *)
(* the PacketRead cursor of bird_protocol (src/bird_protocol/src/packet.rs).*)
(*                                                                         *)
(* Representation of Rust values:                                          *)
(*   - a byte (u8) is an integer 0..255, an i8 an integer -128..127;       *)
(*   - every wider integer (i16 .. u128, usize, the i32/i64 inside VarInt  *)
(*     and VarLong) is its two's-complement bit pattern: a sequence of     *)
(*     0/1 of the type's width, bit 0 (least significant) first;           *)
(*   - an f32 is its IEEE-754 bit pattern (32 bits);                       *)
(*   - a String is the sequence of its UTF-8 bytes;                        *)
(*   - a byte queue is the sequence of the bytes it still holds.           *)
(***************************************************************************)
EXTENDS Integers, Sequences, FiniteSets, TLC

VARIABLES
    output,     \* OutputByteQueue: the bytes written so far
    input,      \* InputByteQueue: the bytes not yet taken
    wire,       \* the bytes the input queue was built from
    fields,     \* the values written so far: [t: type, v: value, n: bytes written]
    decoded,    \* one record per decode performed: [t, res, taken, iters]
    pc,         \* "write" | "read" | "raw" | "loop" | "done" | "failed" | "packet"
    frame,      \* the RemainingBytesArray::read in progress: [t, result, pushed]
    packet_read,\* PacketRead: [bytes, offset]
    calls       \* the calls made on packet_read: [op, length, before, res]

vars == <<output, input, wire, fields, decoded, pc, frame, packet_read, calls>>

(***************************************************************************)
(* Bit patterns                                                            *)
(***************************************************************************)
Byte == 0..255

\* The function f over 1..w, as a tuple.
Tuple(f, w) == SubSeq(f, 1, w)

\* F applied to the value of v, v evaluated once.
With(v, F(_)) == CHOOSE y \in { F(x) : x \in {v} } : TRUE

\* The w-bit pattern of a non-negative integer n < 2^31.
Bits(n, w) ==
    Tuple([i \in 1..w |-> IF i <= 31 THEN (n \div (2 ^ (i - 1))) % 2 ELSE 0], w)

\* The two's-complement 32-bit pattern of an i32 literal.
I32(n) ==
    Tuple([i \in 1..32 |-> IF i <= 31 THEN (n \div (2 ^ (i - 1))) % 2
                           ELSE IF n < 0 THEN 1 ELSE 0], 32)

\* The unsigned value of the low k bits of b (k <= 31).
LowNat(b, k) ==
    LET f[i \in 0..k] == IF i = 0 THEN 0
                         ELSE f[i - 1] + (IF i <= Len(b) THEN b[i] ELSE 0) * (2 ^ (i - 1))
    IN f[k]

\* No bit at position >= k is set.
ZeroFrom(b, k) == \A i \in (k + 1)..Len(b) : b[i] = 0

\* `b as <w-bit integer>`: truncation, or sign/zero extension.
Cast(b, signed, w) ==
    Tuple([i \in 1..w |-> IF i <= Len(b) THEN b[i]
                          ELSE IF signed THEN b[Len(b)] ELSE 0], w)

\* The value of a signed pattern that fits 32 bits, as an integer.
SignedInt(b) ==
    IF b[Len(b)] = 0 THEN LowNat(b, 31)
    ELSE (LowNat(b, 31) - 2147483647) - 1

Shr(b, k) ==
    With(b, LAMBDA x :
        Tuple([i \in 1..Len(x) |-> IF i + k <= Len(x) THEN x[i + k] ELSE 0], Len(x)))
Shl(b, k) ==
    With(b, LAMBDA x :
        Tuple([i \in 1..Len(x) |-> IF i - k >= 1 THEN x[i - k] ELSE 0], Len(x)))
BitAnd(a, b) ==
    With(<<a, b>>, LAMBDA p :
        Tuple([i \in 1..Len(p[1]) |-> p[1][i] * p[2][i]], Len(p[1])))
BitOr(a, b) ==
    With(<<a, b>>, LAMBDA p :
        Tuple([i \in 1..Len(p[1]) |-> IF p[1][i] + p[2][i] > 0 THEN 1 ELSE 0], Len(p[1])))

\* `b as u8`
AsU8(b) == LowNat(b, 8)

\* n copies of b
Rep(b, n) == [i \in 1..n |-> b]

(***************************************************************************)
(* Results                                                                 *)
(***************************************************************************)
Ok(v) == [tag |-> "Ok", val |-> v]
Err(e) == [tag |-> "Err", err |-> e]      \* e: <<ReadError variant, payload...>>
Panic(m) == [tag |-> "Panic", msg |-> m]
IsOk(r) == r.tag = "Ok"

(***************************************************************************)
(* Byte queue boundary (crate::bytes, spec section 4.1)                    *)
(***************************************************************************)
InputQueueErr == Err(<<"InputQueue">>)

remaining(q) == Len(q)
has_bytes(q, n) == Len(q) >= n

take_byte(q) ==
    IF q = <<>> THEN [res |-> InputQueueErr, rest |-> q]
    ELSE [res |-> Ok(Head(q)), rest |-> Tail(q)]

take_bytes(q, n) ==
    IF Len(q) < n THEN [res |-> InputQueueErr, rest |-> q]
    ELSE [res |-> Ok(SubSeq(q, 1, n)), rest |-> SubSeq(q, n + 1, Len(q))]

put_byte(out, b) == Append(out, b)
put_bytes(out, bs) == out \o bs

(***************************************************************************)
(* protocol_var_num_type: VarInt (BITS = 32) and VarLong (BITS = 64)       *)
(***************************************************************************)
\* Mutant: the loop tests (value & !0xff) == 0, so a last byte may carry bit 0x80.
RECURSIVE VarNumWriteLoopMask8(_, _)
VarNumWriteLoopMask8(value, out) ==
    IF ZeroFrom(value, 8)
    THEN put_byte(out, AsU8(value))
    ELSE VarNumWriteLoopMask8(Shr(value, 7),
                              put_byte(out, (AsU8(value) % 128) + 128))

RECURSIVE VarNumWriteLoop(_, _)
VarNumWriteLoop(value, out) ==
    IF ZeroFrom(value, 7)                                \* (value & !0x7f) == 0
    THEN put_byte(out, AsU8(value))
    ELSE VarNumWriteLoop(Shr(value, 7),                  \* value >>= 7
                         put_byte(out, (AsU8(value) % 128) + 128))

\* Writable::write: `self` is the i32/i64 pattern, read as unsigned.
VarNumWrite(self, out) == VarNumWriteLoop(self, out)

\* Mutant: the byte is shifted in without the & 0x7f mask.
RECURSIVE VarNumReadLoopNoMask(_, _, _, _, _)
VarNumReadLoopNoMask(q, value, position, BITS, iters) ==
    LET t == take_byte(q) IN
    IF ~IsOk(t.res) THEN [res |-> t.res, rest |-> t.rest, iters |-> iters + 1]
    ELSE
        LET current_byte == Bits(t.res.val, BITS)
            value2 == BitOr(value, Shl(current_byte, position))
        IN  IF current_byte[8] = 0
            THEN [res |-> Ok(value2), rest |-> t.rest, iters |-> iters + 1]
            ELSE IF position + 7 >= BITS
                 THEN [res |-> Err(<<"BadVarNum">>), rest |-> t.rest, iters |-> iters + 1]
                 ELSE VarNumReadLoopNoMask(t.rest, value2, position + 7, BITS, iters + 1)

\* Mutant: position >= BITS is tested before position += 7.
RECURSIVE VarNumReadLoopLateCheck(_, _, _, _, _)
VarNumReadLoopLateCheck(q, value, position, BITS, iters) ==
    LET t == take_byte(q) IN
    IF ~IsOk(t.res) THEN [res |-> t.res, rest |-> t.rest, iters |-> iters + 1]
    ELSE
        LET current_byte == Bits(t.res.val, BITS)
            value2 == BitOr(value, Shl(BitAnd(current_byte, Bits(127, BITS)), position))
        IN  IF current_byte[8] = 0
            THEN [res |-> Ok(value2), rest |-> t.rest, iters |-> iters + 1]
            ELSE IF position >= BITS
                 THEN [res |-> Err(<<"BadVarNum">>), rest |-> t.rest, iters |-> iters + 1]
                 ELSE VarNumReadLoopLateCheck(t.rest, value2, position + 7, BITS, iters + 1)

RECURSIVE VarNumReadLoop(_, _, _, _, _)
VarNumReadLoop(q, value, position, BITS, iters) ==
    LET t == take_byte(q) IN
    IF ~IsOk(t.res) THEN [res |-> t.res, rest |-> t.rest, iters |-> iters + 1]
    ELSE
        LET current_byte == Bits(t.res.val, BITS)        \* take_byte()? as $num_type
            value2 == BitOr(value, Shl(BitAnd(current_byte, Bits(127, BITS)), position))
        IN  IF current_byte[8] = 0                       \* (current_byte & 0x80) == 0
            THEN [res |-> Ok(value2), rest |-> t.rest, iters |-> iters + 1]
            ELSE IF position + 7 >= BITS
                 THEN [res |-> Err(<<"BadVarNum">>), rest |-> t.rest, iters |-> iters + 1]
                 ELSE With(<<t.rest, value2>>, LAMBDA a :
                        VarNumReadLoop(a[1], a[2], position + 7, BITS, iters + 1))

\* Readable::read
VarNumRead(q, BITS) == VarNumReadLoop(q, Bits(0, BITS), 0, BITS, 0)

(***************************************************************************)
(* u8, i8, bool and protocol_num_type (fixed-width, to_le_bytes)           *)
(***************************************************************************)
to_le_bytes(b) ==
    Tuple([j \in 1..(Len(b) \div 8) |-> LowNat(Shr(b, 8 * (j - 1)), 8)], Len(b) \div 8)
from_le_bytes(bytes) ==
    Tuple([i \in 1..(8 * Len(bytes)) |->
              (bytes[((i - 1) \div 8) + 1] \div (2 ^ ((i - 1) % 8))) % 2], 8 * Len(bytes))

U8Write(self, out) == put_byte(out, self)
U8Read(q) == take_byte(q)

\* (*self as u8).write(output)
I8Write(self, out) == U8Write(self % 256, out)
\* u8::read(input).await.map(|val| val as i8)
I8Read(q) ==
    LET r == U8Read(q) IN
    IF IsOk(r.res)
    THEN [res |-> Ok(IF r.res.val >= 128 THEN r.res.val - 256 ELSE r.res.val), rest |-> r.rest]
    ELSE r

BoolWrite(self, out) == U8Write(IF self THEN 1 ELSE 0, out)
BoolRead(q) ==
    LET r == U8Read(q) IN
    IF IsOk(r.res) THEN [res |-> Ok(r.res.val # 0), rest |-> r.rest] ELSE r

\* size_of::<$type>() is Len(self) \div 8.
NumWrite(self, out) == put_bytes(out, to_le_bytes(self))
\* Mutant: the result of take_bytes is dropped and the zeroed buffer converted.
NumReadIgnoreErr(q, size) ==
    LET r == take_bytes(q, size) IN
    IF IsOk(r.res) THEN [res |-> Ok(from_le_bytes(r.res.val)), rest |-> r.rest]
    ELSE [res |-> Ok(from_le_bytes(Rep(0, size))), rest |-> r.rest]

NumRead(q, size) ==
    LET r == take_bytes(q, size) IN
    IF IsOk(r.res) THEN [res |-> Ok(from_le_bytes(r.res.val)), rest |-> r.rest] ELSE r

(***************************************************************************)
(* String                                                                  *)
(***************************************************************************)
STRING_LIMIT == 32767
CHAT_LIMIT == 262144

\* A usize (64-bit pattern) that is at most the integer n (n < 2^31).
UsizeLeq(size, n) == ZeroFrom(size, 31) /\ LowNat(size, 31) <= n

\* InputByteQueue::take_vec(count, &mut vec): appends exactly count bytes.
take_vec(q, count) ==
    IF ~UsizeLeq(count, Len(q)) THEN [res |-> InputQueueErr, rest |-> q]
    ELSE LET n == LowNat(count, 31) IN
         [res |-> Ok(SubSeq(q, 1, n)), rest |-> SubSeq(q, n + 1, Len(q))]

IsCont(b) == b >= 128 /\ b <= 191

\* The number of bytes of the UTF-8 sequence that starts at s[i], 0 when s[i..]
\* does not start a well-formed sequence (Unicode table 3-7).
Utf8SeqLen(s, i) ==
    LET b == s[i]
        c(k) == IF i + k <= Len(s) THEN s[i + k] ELSE 0
    IN  IF b <= 127 THEN 1
        ELSE IF b >= 194 /\ b <= 223 THEN (IF IsCont(c(1)) THEN 2 ELSE 0)
        ELSE IF b = 224 THEN (IF c(1) >= 160 /\ c(1) <= 191 /\ IsCont(c(2)) THEN 3 ELSE 0)
        ELSE IF (b >= 225 /\ b <= 236) \/ b = 238 \/ b = 239
             THEN (IF IsCont(c(1)) /\ IsCont(c(2)) THEN 3 ELSE 0)
        ELSE IF b = 237 THEN (IF c(1) >= 128 /\ c(1) <= 159 /\ IsCont(c(2)) THEN 3 ELSE 0)
        ELSE IF b = 240
             THEN (IF c(1) >= 144 /\ c(1) <= 191 /\ IsCont(c(2)) /\ IsCont(c(3)) THEN 4 ELSE 0)
        ELSE IF b >= 241 /\ b <= 243
             THEN (IF IsCont(c(1)) /\ IsCont(c(2)) /\ IsCont(c(3)) THEN 4 ELSE 0)
        ELSE IF b = 244
             THEN (IF c(1) >= 128 /\ c(1) <= 143 /\ IsCont(c(2)) /\ IsCont(c(3)) THEN 4 ELSE 0)
        ELSE 0

\* std::str::from_utf8 succeeds: every byte either starts a well-formed
\* sequence or is a continuation byte inside the one that starts 1..3 before.
from_utf8_ok(s) ==
    \A i \in 1..Len(s) :
        IF IsCont(s[i])
        THEN \E k \in 1..3 : i - k >= 1 /\ ~IsCont(s[i - k]) /\ Utf8SeqLen(s, i - k) > k
                             /\ \A m \in 1..(k - 1) : IsCont(s[i - m])
        ELSE Utf8SeqLen(s, i) > 0

read_string_with_limit(q, limit) ==
    LET r == VarNumRead(q, 32) IN
    IF ~IsOk(r.res) THEN [res |-> r.res, rest |-> r.rest]
    ELSE
        LET length == r.res.val                          \* i32
            size == Cast(length, TRUE, 64)               \* length as usize
        IN  IF SignedInt(length) > limit
            THEN [res |-> Err(<<"BadStringLimit", limit>>), rest |-> r.rest]
            ELSE IF size[64] = 1                         \* Vec::with_capacity over isize::MAX
            THEN [res |-> Panic("capacity overflow"), rest |-> r.rest]
            ELSE LET v == take_vec(r.rest, size) IN
                 IF ~IsOk(v.res) THEN v
                 ELSE IF from_utf8_ok(v.res.val) THEN v
                 ELSE [res |-> Err(<<"BadUtf8">>), rest |-> v.rest]

\* Mutant: String is read under the structured-text limit.
StringReadChatLimit(q) == read_string_with_limit(q, CHAT_LIMIT)

StringRead(q) == read_string_with_limit(q, STRING_LIMIT)

\* VarInt(self.len() as i32).write(output)?; output.put_bytes(self.as_bytes())
StringWrite(self, out) ==
    put_bytes(VarNumWrite(Cast(Bits(Len(self), 64), FALSE, 32), out), self)

\* Identifier::from_full is outside the repository: a name is taken to parse
\* when it holds a ':' between namespace and path.
identifier_from_full_ok(s) == \E i \in 1..Len(s) : s[i] = 58

IdentifierRead(q) ==
    LET r == StringRead(q) IN
    IF ~IsOk(r.res) THEN r
    ELSE IF identifier_from_full_ok(r.res.val) THEN r
    ELSE [res |-> Err(<<"BadIdentifier">>), rest |-> r.rest]

\* serde_json::from_str is outside the repository: a document is taken to
\* parse when it opens as a JSON string, object or array.
json_from_str_ok(s) == s # <<>> /\ Head(s) \in {34, 91, 123}

ComponentTypeRead(q) ==
    LET r == read_string_with_limit(q, CHAT_LIMIT) IN
    IF ~IsOk(r.res) THEN r
    ELSE IF json_from_str_ok(r.res.val) THEN r
    ELSE [res |-> Err(<<"BadJson">>), rest |-> r.rest]

(***************************************************************************)
(* BlockPosition = Vector3D<i32>: [x, y, z], each an i32 pattern           *)
(***************************************************************************)
BLOCK_X_MASK == 67108863
BLOCK_Z_MASK == BLOCK_X_MASK
BLOCK_Y_MASK == 4095
BLOCK_X_NEG_BOUND == 33554432
BLOCK_Z_NEG_BOUND == BLOCK_X_NEG_BOUND
BLOCK_Y_NEG_BOUND == 2048

\* Mutant: the test is c > bound, so a field equal to the bound stays positive.
BlockSignAdjustGt(c, bound) ==
    IF SignedInt(c) > bound THEN I32(SignedInt(c) - 2 * bound) ELSE c

\* if c >= bound { c -= bound << 1 }
BlockSignAdjust(c, bound) ==
    IF SignedInt(c) >= bound THEN I32(SignedInt(c) - 2 * bound) ELSE c

BlockPositionRead(q) ==
    LET r == NumRead(q, 8) IN                            \* u64::read
    IF ~IsOk(r.res) THEN r
    ELSE
        LET val == r.res.val
            x == Cast(Shr(val, 38), FALSE, 32)
            z == Cast(BitAnd(Shr(val, 12), Bits(BLOCK_Z_MASK, 64)), FALSE, 32)
            y == Cast(BitAnd(val, Bits(BLOCK_Y_MASK, 64)), FALSE, 32)
        IN  [res |-> Ok([x |-> BlockSignAdjust(x, BLOCK_X_NEG_BOUND),
                         y |-> BlockSignAdjust(y, BLOCK_Y_NEG_BOUND),
                         z |-> BlockSignAdjust(z, BLOCK_Z_NEG_BOUND)]),
             rest |-> r.rest]

\* The packed i64 that BlockPosition's write hands to i64's write.
BlockPositionPack(self) ==
    LET x == Cast(self.x, TRUE, 64)
        z == Cast(self.z, TRUE, 64)
        y == Cast(self.y, TRUE, 64)
    IN  BitOr(BitOr(Shl(BitAnd(x, Bits(BLOCK_X_MASK, 64)), 38),
                    Shl(BitAnd(z, Bits(BLOCK_Z_MASK, 64)), 12)),
              BitAnd(y, Bits(BLOCK_Y_MASK, 64)))

BlockPositionWrite(self, out) == NumWrite(BlockPositionPack(self), out)

(***************************************************************************)
(* f32 arithmetic (round to nearest even) on normal numbers and zero       *)
(***************************************************************************)
F32(sign, exp, mant) ==
    Tuple([i \in 1..32 |-> IF i <= 23 THEN (mant \div (2 ^ (i - 1))) % 2
                           ELSE IF i <= 31 THEN (exp \div (2 ^ (i - 24))) % 2
                           ELSE sign], 32)
F32Exp(x) == LowNat(Shr(x, 23), 8)
F32Sig(x) == LowNat(x, 23) + 8388608                     \* with the implicit bit
F32IsZero(x) == ZeroFrom(Cast(x, FALSE, 31), 0)

\* std::f32::consts::PI = 0x40490FDB, and the literal 256.0
PI == F32(0, 128, 4788187)
F32_256 == F32(0, 135, 0)

\* q (24 bits, or 2^24 after the carry) with exponent field e, rounded by the
\* remainder rem out of unit.
F32Round(sign, e, q, rem, unit) ==
    LET up == (2 * rem > unit) \/ (2 * rem = unit /\ q % 2 = 1)
        q1 == IF up THEN q + 1 ELSE q
    IN  IF q1 = 16777216 THEN F32(sign, e + 1, 0) ELSE F32(sign, e, q1 - 8388608)

\* `b as f32` for a byte: exact.
F32FromU8(b) ==
    IF b = 0 THEN F32(0, 0, 0)
    ELSE LET L == CHOOSE n \in 1..8 : 2 ^ (n - 1) <= b /\ b < 2 ^ n
         IN  F32(0, 126 + L, b * (2 ^ (24 - L)) - 8388608)

F32Mul(a, b) ==
    LET sign == (a[32] + b[32]) % 2 IN
    IF F32IsZero(a) \/ F32IsZero(b) THEN F32(sign, 0, 0)
    ELSE
        LET ah == F32Sig(a) \div 4096    al == F32Sig(a) % 4096
            bh == F32Sig(b) \div 4096    bl == F32Sig(b) % 4096
            mid == ah * bl + al * bh
            low == (mid % 4096) * 4096 + al * bl
            hi == ah * bh + (mid \div 4096) + (low \div 16777216)
            lo == low % 16777216                         \* product = hi * 2^24 + lo
            e == F32Exp(a) + F32Exp(b) - 127
        IN  IF hi >= 8388608
            THEN F32Round(sign, e + 1, hi, lo, 16777216)
            ELSE F32Round(sign, e, 2 * hi + (lo \div 8388608), lo % 8388608, 8388608)

\* n further quotient bits of r / d by long division (r < d): <<quotient, remainder>>.
RECURSIVE F32DivBits(_, _, _, _)
F32DivBits(q, r, d, n) ==
    IF n = 0 THEN <<q, r>>
    ELSE IF 2 * r >= d THEN F32DivBits(2 * q + 1, 2 * r - d, d, n - 1)
    ELSE F32DivBits(2 * q, 2 * r, d, n - 1)

F32Div(a, b) ==
    LET sign == (a[32] + b[32]) % 2 IN
    IF F32IsZero(a) THEN F32(sign, 0, 0)
    ELSE
        LET sa == F32Sig(a)
            sb == F32Sig(b)
            e == F32Exp(a) - F32Exp(b) + 127
            d == IF sa >= sb THEN F32DivBits(1, sa - sb, sb, 23)
                 ELSE F32DivBits(0, sa, sb, 24)
        IN  F32Round(sign, IF sa >= sb THEN e ELSE e - 1, d[1], d[2], sb)

(***************************************************************************)
(* Angle = f32                                                             *)
(***************************************************************************)
\* Angle::from((u8::read(input).await? as f32) * PI / 256.0)
AngleRead(q) ==
    LET r == U8Read(q) IN
    IF ~IsOk(r.res) THEN r
    ELSE [res |-> Ok(F32Div(F32Mul(F32FromU8(r.res.val), PI), F32_256)), rest |-> r.rest]

\* (self.0 * 256.0 / PI).write(output): the product is an f32, written by f32's write
AngleWrite(self, out) == NumWrite(F32Div(F32Mul(self, F32_256), PI), out)

(***************************************************************************)
(* Codec types.  A type is a record whose field k names the Rust type.     *)
(***************************************************************************)
U8T == [k |-> "u8"]
I8T == [k |-> "i8"]
BoolT == [k |-> "bool"]
NumT(w, signed) == [k |-> "num", w |-> w, signed |-> signed]     \* i16 .. u128
VarIntT == [k |-> "VarInt"]
VarLongT == [k |-> "VarLong"]
StringT == [k |-> "String"]
IdentifierT == [k |-> "Identifier"]
ComponentTypeT == [k |-> "ComponentType"]
BlockPositionT == [k |-> "BlockPosition"]
AngleT == [k |-> "Angle"]
PhantomDataT == [k |-> "PhantomData"]
OptionT(t) == [k |-> "Option", of |-> t]
RemainingBytesArrayT(t) == [k |-> "RemainingBytesArray", of |-> t]
LengthProvidedArrayT(t, l) == [k |-> "LengthProvidedArray", of |-> t, size |-> l]

None == [some |-> FALSE]
Some(v) == [some |-> TRUE, v |-> v]

(***************************************************************************)
(* SizeNumber: primitive_size_number and protocol_var_num_type             *)
(***************************************************************************)
\* `*self as usize` / `self.0 as usize`
as_size(l, self) ==
    CASE l.k = "u8" -> Bits(self, 64)
      [] l.k = "i8" -> Cast(Bits(self % 256, 8), TRUE, 64)
      [] l.k = "num" -> Cast(self, l.signed, 64)
      [] l.k = "VarInt" -> Cast(self, TRUE, 64)
      [] l.k = "VarLong" -> Cast(self, TRUE, 64)

\* `size as $type` / `$type::from(size as $num_type)`
new_from_size(l, size) ==
    CASE l.k = "u8" -> LowNat(size, 8)
      [] l.k = "i8" -> (IF size[8] = 1 THEN LowNat(size, 8) - 256 ELSE LowNat(size, 8))
      [] l.k = "num" -> Cast(size, FALSE, l.w)
      [] l.k = "VarInt" -> Cast(size, FALSE, 32)
      [] l.k = "VarLong" -> Cast(size, FALSE, 64)

\* The iterations of `for _ in 0..size` that can begin on the queue q: all
\* of them, or Len(q) + 1 for a size of 2^31 or more, every T::read of the
\* element types used here taking a byte or failing.
Iterations(size, q) == IF ZeroFrom(size, 31) THEN LowNat(size, 31) ELSE Len(q) + 1

(***************************************************************************)
(* Writable::write and Readable::read, by type                             *)
(***************************************************************************)
RECURSIVE Write(_, _, _), WriteElements(_, _, _, _, _)

\* for element in &self.result { element.write(output)? }
\* The elements i..j in order, the range halved at each level.
WriteElements(t, result, i, j, out) ==
    IF i > j THEN out
    ELSE IF i = j THEN Write(t, result[i], out)
    ELSE With(WriteElements(t, result, i, (i + j) \div 2, out),
              LAMBDA o : WriteElements(t, result, ((i + j) \div 2) + 1, j, o))

Write(t, self, out) ==
    CASE t.k = "u8" -> U8Write(self, out)
      [] t.k = "i8" -> I8Write(self, out)
      [] t.k = "bool" -> BoolWrite(self, out)
      [] t.k = "num" -> NumWrite(self, out)
      [] t.k = "VarInt" -> VarNumWrite(self, out)
      [] t.k = "VarLong" -> VarNumWrite(self, out)
      [] t.k = "String" -> StringWrite(self, out)
      [] t.k = "Identifier" -> StringWrite(self, out)        \* self.to_string().write(output)
      [] t.k = "BlockPosition" -> BlockPositionWrite(self, out)
      [] t.k = "Angle" -> AngleWrite(self, out)
      [] t.k = "PhantomData" -> out
      [] t.k = "Option" ->
            IF self.some THEN Write(t.of, self.v, BoolWrite(TRUE, out))
            ELSE BoolWrite(FALSE, out)
      [] t.k = "RemainingBytesArray" -> WriteElements(t.of, self, 1, Len(self), out)
      [] t.k = "LengthProvidedArray" ->
            WriteElements(t.of, self, 1, Len(self),
                Write(t.size, new_from_size(t.size, Bits(Len(self), 64)), out))

RECURSIVE Read(_, _), LengthProvidedArrayReadLoop(_, _, _),
          RemainingBytesArrayReadLoop(_, _, _)

\* result.push(T::read(input).await?), once
PushOne(r) ==
    IF IsOk(r.res) THEN [res |-> Ok(<<r.res.val>>), rest |-> r.rest] ELSE r

\* The pushes of b after those of a; the first error ends the loop.
PushMore(a, b) ==
    IF ~IsOk(b.res) THEN b ELSE [res |-> Ok(a.res.val \o b.res.val), rest |-> b.rest]

\* for _ in 0..n { result.push(T::read(input).await?) }
\* n iterations in order, the range halved at each level.
LengthProvidedArrayReadLoop(t, q, n) ==
    IF n = 0 THEN [res |-> Ok(<<>>), rest |-> q]
    ELSE IF n = 1 THEN PushOne(Read(t, q))
    ELSE With(LengthProvidedArrayReadLoop(t, q, n \div 2), LAMBDA a :
              IF ~IsOk(a.res) THEN a
              ELSE With(LengthProvidedArrayReadLoop(t, a.rest, n - (n \div 2)),
                        LAMBDA b : PushMore(a, b)))

\* let size = L::read(input).await?.as_size()
LengthProvidedArrayRead(t, l, q) ==
    With(Read(l, q), LAMBDA r :
         IF ~IsOk(r.res) THEN r
         ELSE LengthProvidedArrayReadLoop(t, r.rest,
                                          Iterations(as_size(l, r.res.val), r.rest)))

\* Mutant: the loop asks for has_bytes(2) and stops with one byte left.
RECURSIVE RemainingBytesArrayReadLoop2(_, _, _)
RemainingBytesArrayReadLoop2(t, q, result) ==
    IF ~has_bytes(q, 2) THEN [res |-> Ok(result), rest |-> q]
    ELSE With(Read(t, q), LAMBDA r :
              IF ~IsOk(r.res) THEN r
              ELSE RemainingBytesArrayReadLoop2(t, r.rest, Append(result, r.res.val)))

\* while input.has_bytes(1) { result.push(T::read(input).await?) }
RemainingBytesArrayReadLoop(t, q, result) ==
    IF ~has_bytes(q, 1) THEN [res |-> Ok(result), rest |-> q]
    ELSE With(Read(t, q), LAMBDA r :
              IF ~IsOk(r.res) THEN r
              ELSE RemainingBytesArrayReadLoop(t, r.rest, Append(result, r.res.val)))

OptionRead(t, q) ==
    LET provided == BoolRead(q) IN
    IF ~IsOk(provided.res) THEN provided
    ELSE IF provided.res.val
         THEN With(Read(t, provided.rest), LAMBDA r :
                   IF IsOk(r.res) THEN [res |-> Ok(Some(r.res.val)), rest |-> r.rest] ELSE r)
         ELSE [res |-> Ok(None), rest |-> provided.rest]

Read(t, q) ==
    CASE t.k = "u8" -> U8Read(q)
      [] t.k = "i8" -> I8Read(q)
      [] t.k = "bool" -> BoolRead(q)
      [] t.k = "num" -> NumRead(q, t.w \div 8)
      [] t.k = "VarInt" -> With(VarNumRead(q, 32), LAMBDA r : [res |-> r.res, rest |-> r.rest])
      [] t.k = "VarLong" -> With(VarNumRead(q, 64), LAMBDA r : [res |-> r.res, rest |-> r.rest])
      [] t.k = "String" -> StringRead(q)
      [] t.k = "Identifier" -> IdentifierRead(q)
      [] t.k = "ComponentType" -> ComponentTypeRead(q)
      [] t.k = "BlockPosition" -> BlockPositionRead(q)
      [] t.k = "Angle" -> AngleRead(q)
      [] t.k = "PhantomData" -> [res |-> Ok("PhantomData"), rest |-> q]
      [] t.k = "Option" -> OptionRead(t.of, q)
      [] t.k = "RemainingBytesArray" -> RemainingBytesArrayReadLoop(t.of, q, <<>>)
      [] t.k = "LengthProvidedArray" -> LengthProvidedArrayRead(t.of, t.size, q)

\* Iterations of the variable-length integer loop in a VarInt/VarLong decode.
VarNumIters(t, q) ==
    CASE t.k = "VarInt" -> VarNumRead(q, 32).iters
      [] t.k = "VarLong" -> VarNumRead(q, 64).iters
      [] OTHER -> 0

(***************************************************************************)
(* The callers: tests::test_macro writes values one after another into one *)
(* output queue, builds an input queue over output.get_bytes() and reads   *)
(* the same types back in order, unwrapping and comparing each; a decoder  *)
(* may also be handed a queue of bytes that no encoder produced.           *)
(***************************************************************************)
Field(t, v) == [t |-> t, v |-> v]

\* $value.write(&mut output).unwrap(); F is a tuple of sets of fields, the
\* fields of one set being of one type.
WriteField(F, max) ==
    /\ pc = "write"
    /\ Len(fields) < max
    /\ \E n \in 1..Len(F) : \E f \in F[n] : \E out \in {Write(f.t, f.v, output)} :
        /\ output' = out
        /\ fields' = Append(fields, [t |-> f.t, v |-> f.v,
                                     bytes |-> SubSeq(out, Len(output) + 1, Len(out))])
    /\ UNCHANGED <<input, wire, decoded, pc, frame, packet_read, calls>>

\* BytesInputQueue::new_without_slice(output.get_bytes())
Flip ==
    /\ pc = "write"
    /\ input' = output
    /\ wire' = output
    /\ pc' = "read"
    /\ UNCHANGED <<output, fields, decoded, frame, packet_read, calls>>

Decode(t, q) ==
    With(Read(t, q), LAMBDA r :
         [t |-> t, res |-> r.res, before |-> q, after |-> r.rest,
          iters |-> VarNumIters(t, q)])

\* assert_eq!($type::read(&mut input).await.unwrap(), $value)
ReadField ==
    /\ pc = "read"
    /\ Len(decoded) < Len(fields)
    /\ \E f \in {fields[Len(decoded) + 1]} : \E d \in {Decode(f.t, input)} :
           /\ input' = d.after
           /\ decoded' = Append(decoded, d)
           /\ pc' = IF d.res = Ok(f.v) THEN "read" ELSE "failed"
    /\ UNCHANGED <<output, wire, fields, frame, packet_read, calls>>

\* $type::read(&mut input) on a queue of arbitrary bytes
ReadRaw(T) ==
    /\ pc = "raw"
    /\ \E t \in T : \E d \in {Decode(t, input)} :
        /\ input' = d.after
        /\ decoded' = <<d>>
    /\ pc' = "done"
    /\ UNCHANGED <<output, wire, fields, frame, packet_read, calls>>

\* No array decode in progress and no PacketRead in use.
NoFrame == [t |-> PhantomDataT, result |-> <<>>, pushed |-> 0]
NoPacket == [bytes |-> <<>>, offset |-> 0]

InitWrite ==
    /\ output = <<>> /\ input = <<>> /\ wire = <<>>
    /\ fields = <<>> /\ decoded = <<>>
    /\ pc = "write"
    /\ frame = NoFrame /\ packet_read = NoPacket /\ calls = <<>>

InitRaw(Q) ==
    /\ input \in Q /\ wire = input
    /\ output = <<>> /\ fields = <<>> /\ decoded = <<>>
    /\ pc = "raw"
    /\ frame = NoFrame /\ packet_read = NoPacket /\ calls = <<>>

Taken(d) == Len(d.before) - Len(d.after)
I64(n) == Cast(I32(n), TRUE, 64)

(***************************************************************************)
(* SpecVarNum: VarInt and VarLong values written and read back             *)
(***************************************************************************)
\* The w-bit pattern whose 7-bit groups, least significant first, are g.
FromGroups(g, w) ==
    Tuple([i \in 1..w |-> LET j == ((i - 1) \div 7) + 1 IN
                          IF j <= Len(g) THEN (g[j] \div (2 ^ ((i - 1) % 7))) % 2 ELSE 0], w)

GroupsOf(w) == (w + 6) \div 7

VarNumValues(w) ==
    { FromGroups([i \in 1..k |-> IF i = 1 THEN lo ELSE IF i = k THEN top ELSE fill], w) :
        k \in 1..GroupsOf(w), lo \in {0, 1, 127}, fill \in {0, 127}, top \in {1, 7, 8, 64, 127} }

VarIntTestValues ==
    { I32(n) : n \in {0, 32, -1, 325, 3219538, 321, -312325, 328138, 2097151} }
VarLongTestValues ==
    { I64(n) : n \in {-3231, -32, 32186094, 32, -2, -1, 2147483647, -2147483647 - 1} }

VarNumFields ==
    { Field(VarIntT, v) : v \in VarNumValues(32) \cup VarIntTestValues }
    \cup { Field(VarLongT, v) : v \in VarNumValues(64) \cup VarLongTestValues }

WriteVarNum == WriteField(<<VarNumFields>>, 1)

NextVarNum == WriteVarNum \/ Flip \/ ReadField
SpecVarNum == InitWrite /\ [][NextVarNum]_vars

\* The reference encoding: the fewest 7-bit groups (at least one) that cover
\* every set bit, least significant first, bit 0x80 on all but the last.
RefGroupCount(v) ==
    CHOOSE n \in 1..GroupsOf(Len(v)) :
        ZeroFrom(v, 7 * n) /\ \A m \in 1..(n - 1) : ~ZeroFrom(v, 7 * m)
RefVarNum(v) ==
    [i \in 1..RefGroupCount(v) |->
        LowNat(Shr(v, 7 * (i - 1)), 7) + (IF i < RefGroupCount(v) THEN 128 ELSE 0)]

IsVarNum(t) == t.k \in {"VarInt", "VarLong"}
MaxVarNumBytes(t) == IF t.k = "VarInt" THEN 5 ELSE 10

\* C1: decoding exactly the bytes that VarInt/VarLong encode wrote for v
\* returns v and leaves no byte unread.
VarNumRoundTrip ==
    \A i \in 1..Len(decoded) :
        IsVarNum(fields[i].t) =>
            /\ decoded[i].before = fields[i].bytes
            /\ decoded[i].res = Ok(fields[i].v)
            /\ decoded[i].after = <<>>

\* A negative VarLong that took ten bytes was written and read back.
VarNumRoundTripWitness ==
    /\ Len(decoded) = 1
    /\ fields[1].t = VarLongT
    /\ fields[1].v[64] = 1
    /\ Len(decoded[1].before) = 10
    /\ decoded[1].res = Ok(fields[1].v)

\* C2: VarInt/VarLong encode writes the reference 7-bit-group encoding: at
\* most 5 (10) bytes, bit 0x80 set on every byte but the last, and the five
\* byte strings the specification lists.
VarNumEncodingIsReference ==
    /\ \A i \in 1..Len(fields) :
        IsVarNum(fields[i].t) =>
            LET b == fields[i].bytes IN
            /\ b = RefVarNum(fields[i].v)
            /\ Len(b) >= 1 /\ Len(b) <= MaxVarNumBytes(fields[i].t)
            /\ \A j \in 1..(Len(b) - 1) : b[j] >= 128
            /\ b[Len(b)] < 128
    /\ \A i \in 1..Len(fields) :
        LET f == fields[i] IN
        /\ (f.t = VarIntT /\ f.v = I32(0)) => f.bytes = <<0>>
        /\ (f.t = VarIntT /\ f.v = I32(2097151)) => f.bytes = <<255, 255, 127>>
        /\ (f.t = VarIntT /\ f.v = I32(-1)) => f.bytes = <<255, 255, 255, 255, 15>>
        /\ (f.t = VarLongT /\ f.v = I64(-1)) => f.bytes = Rep(255, 9) \o <<1>>
        /\ (f.t = VarLongT /\ f.v = I64(2147483647)) => f.bytes = <<255, 255, 255, 255, 7>>

\* VarInt(-1) was written as FF FF FF FF 0F.
VarNumEncodingWitness ==
    /\ Len(fields) = 1
    /\ fields[1].t = VarIntT
    /\ fields[1].v = I32(-1)
    /\ fields[1].bytes = <<255, 255, 255, 255, 15>>

(***************************************************************************)
(* SpecRaw: the decoders on queues of arbitrary bytes                      *)
(***************************************************************************)
MaxCont == 11
MaxTail == 4

\* k continuation bytes, then possibly a terminating byte and m more bytes.
RawQueues ==
    { Rep(c, k) : c \in {128, 255}, k \in 0..MaxCont }
    \cup { Rep(c, k) \o <<term>> \o Rep(p, m) :
            c \in {128, 255}, k \in 0..MaxCont, term \in {0, 1, 127},
            p \in {0, 255}, m \in 0..MaxTail }

RawTypes ==
    { U8T, I8T, BoolT, VarIntT, VarLongT }
    \cup { NumT(w, signed) : w \in {16, 32, 64, 128}, signed \in BOOLEAN }

InitRawQueues == InitRaw(RawQueues)
ReadRawType == ReadRaw(RawTypes)

NextRaw == ReadRawType
SpecRaw == InitRawQueues /\ [][NextRaw]_vars

\* C3: when the first 5 (VarInt) or 10 (VarLong) bytes all carry bit 0x80 the
\* decode fails with BadVarNum having taken exactly those bytes; an input with
\* a terminating byte among them is never rejected with BadVarNum; the loop
\* never runs more than 5 (10) times.
VarNumRejectsOverlong ==
    \A i \in 1..Len(decoded) :
        LET d == decoded[i]
            N == MaxVarNumBytes(d.t)
            q == d.before
        IN  IsVarNum(d.t) =>
            /\ (Len(q) >= N /\ \A j \in 1..N : q[j] >= 128) =>
                    /\ d.res = Err(<<"BadVarNum">>)
                    /\ Taken(d) = N
                    /\ d.after = SubSeq(q, N + 1, Len(q))
            /\ (\E j \in 1..N : j <= Len(q) /\ q[j] < 128) =>
                    d.res # Err(<<"BadVarNum">>)
            /\ d.iters <= N
            /\ Taken(d) <= N

\* A VarLong decode rejected ten continuation bytes and left later bytes alone.
VarNumRejectsOverlongWitness ==
    /\ pc = "done"
    /\ decoded[1].t = VarLongT
    /\ decoded[1].res = Err(<<"BadVarNum">>)
    /\ Taken(decoded[1]) = 10
    /\ Len(input) > 0

FixedSize(t) == IF t.k = "num" THEN t.w \div 8 ELSE 1
IsFixed(t) == t.k \in {"num", "u8", "i8", "bool"}

\* C10: a fixed-width decode on a queue shorter than the type, and a
\* VarInt/VarLong decode whose bytes run out before a terminating byte within
\* the 5/10-byte bound, return ReadError::InputQueue: no value, no content
\* error, and nothing taken beyond the end.
TruncatedInputIsQueueError ==
    \A i \in 1..Len(decoded) :
        LET d == decoded[i]
            q == d.before
        IN  /\ (IsFixed(d.t) /\ Len(q) < FixedSize(d.t)) => d.res = InputQueueErr
            /\ (IsVarNum(d.t) /\ Len(q) < MaxVarNumBytes(d.t)
                    /\ \A j \in 1..Len(q) : q[j] >= 128) => d.res = InputQueueErr
            /\ Taken(d) >= 0 /\ Taken(d) <= Len(q)

\* A u64 decode on seven bytes and a VarInt decode on four continuation bytes
\* have returned the queue error (one decode per run: either is a witness).
TruncatedInputWitness ==
    /\ pc = "done"
    /\ decoded[1].res = InputQueueErr
    /\ \/ decoded[1].t = NumT(64, FALSE) /\ Len(wire) = 7
       \/ decoded[1].t = VarIntT /\ Len(wire) = 4

(***************************************************************************)
(* SpecString: the string decoders on a declared length and a payload      *)
(***************************************************************************)
MaxSlack == 1

DeclaredLengths ==
    { -2147483647 - 1, -1, 0, 1, 2, 3, 32766, 32767, 32768, 32769,
      262143, 262144, 262145, 2147483647 }

\* The payload sizes tried for a declared length L: none, and L give or take.
PayloadSizes(L) ==
    {0} \cup (IF L >= 0 /\ L <= 262145 THEN { n \in (L - MaxSlack)..(L + MaxSlack) : n >= 0 }
              ELSE {3})

\* A VarInt length prefix followed by n bytes 'a'; short queues with other
\* payloads ("я", a broken sequence, a lone 0xFF, "a:b", the JSON string "a");
\* queues with no complete prefix.
StringQueues ==
    UNION { { VarNumWrite(I32(L), <<>>) \o Rep(97, n) : n \in PayloadSizes(L) } :
            L \in DeclaredLengths }
    \cup { <<2, 209, 143>>, <<2, 209, 2>>, <<1, 255>>, <<3, 97, 58, 98>>, <<3, 34, 97, 34>>,
           <<>>, <<128>>, <<255, 255, 255, 255, 255, 1>> }

StringTypes == { StringT, IdentifierT, ComponentTypeT }

InitStringQueues == InitRaw(StringQueues)
ReadStringType == ReadRaw(StringTypes)

NextString == ReadStringType
SpecString == InitStringQueues /\ [][NextString]_vars

LimitOf(t) == IF t.k = "ComponentType" THEN 262144 ELSE 32767

\* C4: when the length prefix decodes to L above the limit (32767 for String
\* and Identifier, 262144 for ComponentType) the decode returns BadStringLimit
\* having taken the prefix only, however many bytes remain; when 0 <= L <= limit
\* and at least L bytes remain it takes exactly L payload bytes.
StringLimitBeforePayload ==
    \A i \in 1..Len(decoded) :
        LET d == decoded[i]
            prefix == VarNumRead(d.before, 32)
            L == SignedInt(prefix.res.val)
        IN  (d.t \in StringTypes /\ IsOk(prefix.res)) =>
            /\ L > LimitOf(d.t) =>
                    /\ d.res = Err(<<"BadStringLimit", LimitOf(d.t)>>)
                    /\ d.after = prefix.rest
            /\ (L >= 0 /\ L <= LimitOf(d.t) /\ Len(prefix.rest) >= L) =>
                    /\ d.res.tag # "Panic"
                    /\ d.res \notin { Err(<<"BadStringLimit", LimitOf(d.t)>>), InputQueueErr }
                    /\ d.after = SubSeq(prefix.rest, L + 1, Len(prefix.rest))

\* A String decode met a declared length of 32768 with 32768 payload bytes
\* behind it and returned the limit error, the payload untouched.
StringLimitWitness ==
    /\ pc = "done"
    /\ decoded[1].t = StringT
    /\ decoded[1].res = Err(<<"BadStringLimit", 32767>>)
    /\ wire = <<128, 128, 2>> \o input
    /\ Len(input) = 32768

\* The byte count Vec::with_capacity and take_vec are called with after the
\* prefix of q decoded to length: length as usize.
RequestedBytes(q) == Cast(VarNumRead(q, 32).res.val, TRUE, 64)

\* C14: for every value L the length prefix decodes to, negative ones
\* included, a String decode either returns a read failure or requests exactly
\* L bytes with 0 <= L <= limit; a negative L is never turned into a huge
\* unsigned byte count or allocation.
StringRequestWithinLimit ==
    \A i \in 1..Len(decoded) :
        LET d == decoded[i]
            prefix == VarNumRead(d.before, 32)
            L == SignedInt(prefix.res.val)
            size == RequestedBytes(d.before)
        IN  (d.t \in StringTypes /\ IsOk(prefix.res)) =>
            \/ d.res.tag = "Err"
            \/ /\ L >= 0 /\ L <= LimitOf(d.t)
               /\ ZeroFrom(size, 31) /\ LowNat(size, 31) = L

(***************************************************************************)
(* SpecBlock: BlockPosition values written and read back                   *)
(***************************************************************************)
BlockPosition(x, y, z) == [x |-> I32(x), y |-> I32(y), z |-> I32(z)]

\* Coordinates at, inside and just outside the 26/12/26-bit ranges.
BlockFields ==
    { Field(BlockPositionT, BlockPosition(x, y, z)) :
        x \in {-33554433, -33554432, -321, -1, 0, 1, 321, 33554431, 33554432},
        y \in {-2049, -2048, -1, 0, 1, 32, 255, 2047, 2048},
        z \in {-33554432, -325837, -32, 0, 1, 33554431, 33554432} }
    \cup { Field(BlockPositionT, BlockPosition(-320, 32, -3123)) }

WriteBlock == WriteField(<<BlockFields>>, 1)

NextBlock == WriteBlock \/ Flip \/ ReadField
SpecBlock == InitWrite /\ [][NextBlock]_vars

BlockInRange(v) ==
    /\ SignedInt(v.x) >= -33554432 /\ SignedInt(v.x) <= 33554431
    /\ SignedInt(v.z) >= -33554432 /\ SignedInt(v.z) <= 33554431
    /\ SignedInt(v.y) >= -2048 /\ SignedInt(v.y) <= 2047

\* C5: a BlockPosition is written as one 64-bit value with x in bits 38-63,
\* z in bits 12-37 and y in bits 0-11; decode recovers a negative coordinate
\* by subtracting 2^26 (x, z) or 2^12 (y) from a field at or above 2^25 or
\* 2^11; every in-range position decodes to itself.
BlockPositionRoundTrip ==
    /\ \A i \in 1..Len(fields) :
        LET f == fields[i]
            packed == from_le_bytes(f.bytes)
        IN  f.t = BlockPositionT =>
            /\ Len(f.bytes) = 8
            /\ \A j \in 1..26 : packed[38 + j] = f.v.x[j] /\ packed[12 + j] = f.v.z[j]
            /\ \A j \in 1..12 : packed[j] = f.v.y[j]
    /\ \A i \in 1..Len(decoded) :
        LET f == fields[i]
            d == decoded[i]
            packed == from_le_bytes(f.bytes)
            fx == LowNat(Shr(packed, 38), 26)
            fz == LowNat(Shr(packed, 12), 26)
            fy == LowNat(packed, 12)
        IN  f.t = BlockPositionT =>
            /\ IsOk(d.res) /\ d.after = <<>>
            /\ SignedInt(d.res.val.x) = (IF fx >= 33554432 THEN fx - 67108864 ELSE fx)
            /\ SignedInt(d.res.val.z) = (IF fz >= 33554432 THEN fz - 67108864 ELSE fz)
            /\ SignedInt(d.res.val.y) = (IF fy >= 2048 THEN fy - 4096 ELSE fy)
            /\ BlockInRange(f.v) => d.res = Ok(f.v)

\* The position (-321, 32, -32) was written and read back unchanged.
BlockPositionWitness ==
    /\ Len(decoded) = 1
    /\ fields[1].v = BlockPosition(-321, 32, -32)
    /\ decoded[1].res = Ok(BlockPosition(-321, 32, -32))
    /\ input = <<>>

(***************************************************************************)
(* SpecAngle: Angle values written, other fields behind them, read back    *)
(***************************************************************************)
MaxAngleFields == 2

\* The angles that decode yields for some bytes, and two fields to follow.
AngleFields ==
    << { Field(AngleT, AngleRead(<<b>>).res.val) :
            b \in {0, 1, 2, 3, 4, 32, 63, 64, 65, 127, 128, 129, 200, 254, 255} },
       { Field(U8T, 7) },
       { Field(VarIntT, I32(300)) } >>

WriteAngle == WriteField(AngleFields, MaxAngleFields)

NextAngle == WriteAngle \/ Flip \/ ReadField
SpecAngle == InitWrite /\ [][NextAngle]_vars

\* C6: Angle encode appends exactly one byte and Angle decode takes exactly
\* one byte, so a field written after an Angle is decoded from the position
\* at which it was written.
AngleOneByteWireForm ==
    /\ \A i \in 1..Len(fields) :
        fields[i].t = AngleT => Len(fields[i].bytes) = 1
    /\ \A i \in 1..Len(decoded) :
        /\ decoded[i].t = AngleT => Taken(decoded[i]) = 1
        /\ (i > 1 /\ decoded[i - 1].t = AngleT) =>
                SubSeq(decoded[i].before, 1, Len(fields[i].bytes)) = fields[i].bytes

(***************************************************************************)
(* SpecArray: RemainingBytesArray and LengthProvidedArray                  *)
(***************************************************************************)
MaxArrayQueue == 5

SizeTypes ==
    { U8T, I8T, VarIntT, VarLongT, NumT(16, TRUE), NumT(16, FALSE),
      NumT(32, TRUE), NumT(64, FALSE), NumT(128, TRUE) }

ArrayLengths == {0, 1, 2, 3, 127, 128, 129, 255, 256, 257}

ArrayFields ==
    << { Field(LengthProvidedArrayT(U8T, l), Tuple([i \in 1..n |-> i % 256], n)) :
            l \in SizeTypes, n \in ArrayLengths },
       { Field(LengthProvidedArrayT(VarIntT, NumT(16, TRUE)),
               <<I32(321), I32(-312325), I32(328138)>>) },
       { Field(LengthProvidedArrayT(StringT, VarIntT),
               << <<104, 101, 108, 108, 111, 33>>, <<112, 111, 107, 97>>,
                  <<100, 97, 100, 97, 100, 97>> >>) },
       { Field(RemainingBytesArrayT(U8T), <<>>),
         Field(RemainingBytesArrayT(U8T), <<32, 233, 211>>),
         Field(RemainingBytesArrayT(I8T), <<-128, -1, 0, 127>>) },
       { Field(RemainingBytesArrayT(VarIntT), <<I32(-1), I32(325), I32(3219538)>>),
         Field(RemainingBytesArrayT(NumT(16, FALSE)), <<Bits(6886, 16), Bits(0, 16)>>) },
       { Field(RemainingBytesArrayT(OptionT(U8T)), <<None, Some(0), Some(5)>>) } >>

ArrayQueues == { q \in RawQueues : Len(q) <= MaxArrayQueue }

ArrayRawTypes ==
    { RemainingBytesArrayT(t) :
        t \in {U8T, I8T, BoolT, VarIntT, NumT(16, FALSE), OptionT(U8T)} }
    \cup { LengthProvidedArrayT(U8T, l) : l \in {U8T, I8T, VarIntT} }

InitArray == InitWrite \/ InitRaw(ArrayQueues)
WriteArray == WriteField(ArrayFields, 1)
ReadRawArray == ReadRaw(ArrayRawTypes)

NextArray == WriteArray \/ Flip \/ ReadField \/ ReadRawArray
SpecArray == InitArray /\ [][NextArray]_vars

\* The elements' own encodings, one after another.
RECURSIVE Concat(_, _, _, _)
Concat(t, elems, i, j) ==
    IF i > j THEN <<>>
    ELSE IF i = j THEN Write(t, elems[i], <<>>)
    ELSE Concat(t, elems, i, (i + j) \div 2) \o Concat(t, elems, ((i + j) \div 2) + 1, j)

IsRba(t) == t.k = "RemainingBytesArray"
IsLpa(t) == t.k = "LengthProvidedArray"

\* C7: RemainingBytesArray decode is framed by queue exhaustion only: with
\* one-byte elements it returns the queue's bytes as elements, in order; on an
\* empty queue it returns the empty sequence; whenever it succeeds the queue
\* is empty; encode writes the elements back to back and nothing else.
RemainingBytesArrayFraming ==
    /\ \A i \in 1..Len(decoded) :
        LET d == decoded[i]
            q == d.before
        IN  IsRba(d.t) =>
            /\ IsOk(d.res) => d.after = <<>>
            /\ q = <<>> => d.res = Ok(<<>>)
            /\ d.t.of = U8T => d.res = Ok(q)
            /\ d.t.of = I8T =>
                    d.res = Ok([j \in 1..Len(q) |-> IF q[j] >= 128 THEN q[j] - 256 ELSE q[j]])
            /\ d.t.of = BoolT => d.res = Ok([j \in 1..Len(q) |-> q[j] # 0])
    /\ \A i \in 1..Len(fields) :
        IsRba(fields[i].t) => fields[i].bytes = Concat(fields[i].t.of, fields[i].v, 1, Len(fields[i].v))

\* The queue 32, 233, 211 was decoded as three u8 elements and is empty.
RemainingBytesArrayWitness ==
    /\ Len(decoded) = 1
    /\ decoded[1].t = RemainingBytesArrayT(U8T)
    /\ decoded[1].before = <<32, 233, 211>>
    /\ decoded[1].res = Ok(<<32, 233, 211>>)
    /\ input = <<>>

\* C8: for every element vector of length n and every size-number type L,
\* LengthProvidedArray encode writes an L value c with as_size(c) = n and then
\* the n element encodings; decode returns the vector and leaves no byte.
LengthProvidedArrayFraming ==
    /\ \A i \in 1..Len(fields) :
        LET f == fields[i]
            c == Read(f.t.size, f.bytes)
        IN  IsLpa(f.t) =>
            /\ IsOk(c.res)
            /\ as_size(f.t.size, c.res.val) = Bits(Len(f.v), 64)
            /\ c.rest = Concat(f.t.of, f.v, 1, Len(f.v))
    /\ \A i \in 1..Len(decoded) :
        (i <= Len(fields) /\ IsLpa(fields[i].t)) =>
            /\ decoded[i].res = Ok(fields[i].v)
            /\ decoded[i].after = <<>>

(***************************************************************************)
(* Spec: values of the self-delimiting types written back to back          *)
(***************************************************************************)
MaxFields == 3

CompoundFields ==
    << { Field(NumT(32, FALSE), Bits(0, 32)) },
       { Field(NumT(16, FALSE), Bits(12, 16)) },
       { Field(NumT(64, TRUE), I64(-321953285)) },
       { Field(U8T, 32), Field(I8T, -120) },
       { Field(BoolT, TRUE) },
       { Field(VarIntT, I32(-1)) },
       { Field(VarLongT, I64(32)), Field(VarLongT, I64(-2)) },
       { Field(StringT, <<115, 111, 109, 101, 95, 209, 143>>) },
       { Field(BlockPositionT, BlockPosition(32321, 233, -32325)) },
       { Field(OptionT(VarIntT), None) },
       { Field(OptionT(VarIntT), Some(I32(128))) },
       { Field(LengthProvidedArrayT(VarIntT, NumT(16, TRUE)), <<I32(321), I32(-312325)>>) },
       { Field(LengthProvidedArrayT(U8T, U8T), Tuple([i \in 1..256 |-> i % 256], 256)) } >>

WriteCompound == WriteField(CompoundFields, MaxFields)

Next == WriteCompound \/ Flip \/ ReadField
Spec == InitWrite /\ [][Next]_vars

\* C9: values of self-delimiting types written back to back are read back in
\* order, each decode returning the value written and taking exactly the
\* bytes its encode wrote, and the queue is empty after the last decode.
SequentialComposition ==
    /\ pc # "failed"
    /\ \A i \in 1..Len(decoded) :
        /\ decoded[i].res = Ok(fields[i].v)
        /\ SubSeq(decoded[i].before, 1, Taken(decoded[i])) = fields[i].bytes
    /\ (pc = "read" /\ Len(decoded) = Len(fields)) => input = <<>>

(***************************************************************************)
(* PacketRead (bird_protocol/src/packet.rs): a cursor over a byte slice    *)
(***************************************************************************)
BytesExceeded == Err(<<"BytesExceeded">>)

\* PacketRead { bytes, offset: 0 }
PacketReadNew(bytes) == [bytes |-> bytes, offset |-> 0]

\* self.bytes.len() - self.offset
available(self) == Len(self.bytes) - self.offset

\* self.available() >= bytes
is_available(self, bytes) == available(self) >= bytes

\* *unsafe { self.bytes.get_unchecked(i) }: the byte at index i, any byte
\* when i is out of bounds.
get_unchecked(bytes, i) == IF i < Len(bytes) THEN {bytes[i + 1]} ELSE Byte

\* Mutant: the byte is returned and offset stays.
PacketTakeByteNoAdvance(self, byte) ==
    IF self.offset = Len(self.bytes) THEN [res |-> BytesExceeded, self |-> self]
    ELSE [res |-> Ok(byte), self |-> self]

\* take_byte; byte is the outcome of get_unchecked(self.offset)
PacketTakeByte(self, byte) ==
    IF self.offset = Len(self.bytes) THEN [res |-> BytesExceeded, self |-> self]
    ELSE [res |-> Ok(byte), self |-> [self EXCEPT !.offset = @ + 1]]

\* Mutant: a failing take_slice moves offset to the end of the slice.
PacketTakeSliceClamp(self, length) ==
    IF is_available(self, length)
    THEN [res |-> Ok(SubSeq(self.bytes, self.offset + 1, self.offset + length)),
          self |-> [self EXCEPT !.offset = @ + length]]
    ELSE [res |-> BytesExceeded, self |-> [self EXCEPT !.offset = Len(self.bytes)]]

\* take_slice
PacketTakeSlice(self, length) ==
    IF is_available(self, length)
    THEN [res |-> Ok(SubSeq(self.bytes, self.offset + 1, self.offset + length)),
          self |-> [self EXCEPT !.offset = @ + length]]
    ELSE [res |-> BytesExceeded, self |-> self]

(***************************************************************************)
(* SpecPacket: take_byte and take_slice calls on a PacketRead              *)
(***************************************************************************)
MaxPacketLen == 3
MaxCalls == 3

PacketBytes == UNION { [1..n -> {0, 2, 3}] : n \in 0..MaxPacketLen }

\* Requested lengths: up to one more than any slice holds, and a large one.
SliceLengths == 0..(MaxPacketLen + 1) \cup {2147483647}

\* PacketRead::new(bytes)
InitPacket ==
    /\ packet_read \in { PacketReadNew(b) : b \in PacketBytes }
    /\ calls = <<>>
    /\ pc = "packet"
    /\ output = <<>> /\ input = <<>> /\ wire = <<>>
    /\ fields = <<>> /\ decoded = <<>> /\ frame = NoFrame

TakeByte ==
    /\ pc = "packet"
    /\ Len(calls) < MaxCalls
    /\ \E byte \in get_unchecked(packet_read.bytes, packet_read.offset) :
       \E r \in {PacketTakeByte(packet_read, byte)} :
            /\ packet_read' = r.self
            /\ calls' = Append(calls, [op |-> "take_byte", length |-> 1,
                                       before |-> packet_read.offset, res |-> r.res])
    /\ UNCHANGED <<output, input, wire, fields, decoded, pc, frame>>

TakeSlice ==
    /\ pc = "packet"
    /\ Len(calls) < MaxCalls
    /\ \E length \in SliceLengths : \E r \in {PacketTakeSlice(packet_read, length)} :
            /\ packet_read' = r.self
            /\ calls' = Append(calls, [op |-> "take_slice", length |-> length,
                                       before |-> packet_read.offset, res |-> r.res])
    /\ UNCHANGED <<output, input, wire, fields, decoded, pc, frame>>

NextPacket == TakeByte \/ TakeSlice
SpecPacket == InitPacket /\ [][NextPacket]_vars

\* The bytes a call returned.
ReturnedBy(c) ==
    IF ~IsOk(c.res) THEN <<>>
    ELSE IF c.op = "take_byte" THEN <<c.res.val>> ELSE c.res.val

\* The bytes returned by the first n calls, in call order.
RECURSIVE ReturnedUpTo(_)
ReturnedUpTo(n) == IF n = 0 THEN <<>> ELSE ReturnedUpTo(n - 1) \o ReturnedBy(calls[n])

\* C11: after any sequence of take_byte and take_slice calls the bytes
\* returned by the successful calls, concatenated, are the prefix of the slice
\* up to offset; available() is the slice length minus the bytes returned;
\* is_available(n) holds exactly when n <= available(), so is_available(0)
\* always; take_byte on an exhausted reader returns BytesExceeded.
PacketReadSequential ==
    LET returned == ReturnedUpTo(Len(calls))
        left == Len(packet_read.bytes) - Len(returned)
    IN  /\ returned = SubSeq(packet_read.bytes, 1, packet_read.offset)
        /\ available(packet_read) = left
        /\ \A n \in SliceLengths : is_available(packet_read, n) <=> n <= left
        /\ is_available(packet_read, 0)
        /\ \A i \in 1..Len(calls) :
            (calls[i].op = "take_byte" /\ calls[i].before = Len(packet_read.bytes)) =>
                calls[i].res = BytesExceeded

\* The calls of tests::packet_read on the slice 0, 2, 3.
PacketReadWitness ==
    /\ packet_read = [bytes |-> <<0, 2, 3>>, offset |-> 3]
    /\ Len(calls) = 3
    /\ calls[1].op = "take_byte" /\ calls[1].res = Ok(0)
    /\ calls[2].op = "take_slice" /\ calls[2].res = Ok(<<2, 3>>)
    /\ calls[3].op = "take_byte" /\ calls[3].res = BytesExceeded

\* offset after the i-th call
OffsetAfter(i) == IF i < Len(calls) THEN calls[i + 1].before ELSE packet_read.offset

\* C13: 0 <= offset <= len(bytes) in every reachable state; take_byte with
\* nothing available and take_slice(n) with n > available() return
\* BytesExceeded and leave offset unchanged, so available() never underflows
\* and the next request for no more than the available bytes succeeds with the
\* bytes it would have returned before the failed call.
PacketReadFailureKeepsOffset ==
    LET bytes == packet_read.bytes IN
    /\ packet_read.offset >= 0
    /\ packet_read.offset <= Len(bytes)
    /\ available(packet_read) >= 0
    /\ \A i \in 1..Len(calls) :
        LET c == calls[i]
            left == Len(bytes) - c.before
        IN  /\ (c.op = "take_byte" /\ left = 0) => c.res = BytesExceeded
            /\ (c.op = "take_slice" /\ c.length > left) => c.res = BytesExceeded
            /\ c.res = BytesExceeded => OffsetAfter(i) = c.before
            /\ (c.res = BytesExceeded /\ i < Len(calls)) =>
                LET d == calls[i + 1] IN
                /\ (d.op = "take_byte" /\ left > 0) => d.res = Ok(bytes[c.before + 1])
                /\ (d.op = "take_slice" /\ d.length <= left) =>
                        d.res = Ok(SubSeq(bytes, c.before + 1, c.before + d.length))

\* On the slice 0, 2, 3 a take_slice(4) failed after one byte was taken and
\* the take_slice(2) after it returned 2, 3.
PacketReadFailureWitness ==
    /\ packet_read = [bytes |-> <<0, 2, 3>>, offset |-> 3]
    /\ Len(calls) = 3
    /\ calls[1].op = "take_byte" /\ calls[1].res = Ok(0)
    /\ calls[2].op = "take_slice" /\ calls[2].length = 4 /\ calls[2].res = BytesExceeded
    /\ calls[3].op = "take_slice" /\ calls[3].length = 2 /\ calls[3].res = Ok(<<2, 3>>)

(***************************************************************************)
(* SpecLoop: RemainingBytesArray::<T>::read, one loop iteration per step   *)
(***************************************************************************)
\* usize::MAX scaled down: the length at which Vec::push finds no capacity
\* left and panics with "capacity overflow". Only a vector of zero-sized
\* elements can reach it: every other element takes a byte of the queue.
MaxPush == MaxArrayQueue + 2

LoopTypes == { U8T, BoolT, VarIntT, NumT(16, FALSE), OptionT(U8T), PhantomDataT }

InitLoop == InitRaw(ArrayQueues)

\* let mut result = Vec::new()
LoopEnter ==
    /\ pc = "raw"
    /\ \E t \in LoopTypes : frame' = [t |-> t, result |-> <<>>, pushed |-> 0]
    /\ pc' = "loop"
    /\ UNCHANGED <<output, input, wire, fields, decoded, packet_read, calls>>

\* result.push(v), the vector below its largest length
Push(f, v) == [f EXCEPT !.result = Append(@, v), !.pushed = @ + 1]

\* One test of `while input.has_bytes(1)` and, when it holds, one
\* result.push(T::read(input).await?); Ok(RemainingBytesArray { result })
\* when it does not. ret is what read() ends with, if it ends in this step.
LoopIteration(f, q) ==
    IF ~has_bytes(q, 1)
    THEN [returns |-> TRUE, ret |-> Ok(f.result), frame |-> f, rest |-> q]
    ELSE With(Read(f.t, q), LAMBDA r :
            IF ~IsOk(r.res)
            THEN [returns |-> TRUE, ret |-> r.res, frame |-> f, rest |-> r.rest]
            ELSE IF f.pushed = MaxPush
            THEN [returns |-> TRUE, ret |-> Panic("capacity overflow"), frame |-> f,
                  rest |-> r.rest]
            ELSE [returns |-> FALSE, ret |-> r.res, frame |-> Push(f, r.res.val),
                  rest |-> r.rest])

LoopStep ==
    /\ pc = "loop"
    /\ \E s \in {LoopIteration(frame, input)} :
        /\ input' = s.rest
        /\ frame' = s.frame
        /\ pc' = IF s.returns THEN "done" ELSE "loop"
        /\ decoded' = IF s.returns
                      THEN <<[t |-> RemainingBytesArrayT(frame.t), res |-> s.ret,
                              before |-> wire, after |-> s.rest, iters |-> 0]>>
                      ELSE decoded
    /\ UNCHANGED <<output, wire, fields, packet_read, calls>>

NextLoop == LoopEnter \/ LoopStep

\* The decode, once entered, keeps running: the future it is awaited in is
\* polled until it completes.
SpecLoop == InitLoop /\ [][NextLoop]_vars /\ WF_vars(NextLoop)

\* C12: for every finite input queue and every element type, zero-sized ones
\* included, the RemainingBytesArray decode loop eventually stops, returning
\* the array once the queue is empty or the first element decode error.
RemainingBytesArrayTerminates ==
    <>(/\ pc = "done"
       /\ \/ decoded[1].res = Ok(frame.result) /\ input = <<>>
          \/ decoded[1].res.tag = "Err")

=============================================================================
